---- MODULE Spec2Model ----
(***************************************************************************)
(* The emergency-coordination backend of src/index.js as a state machine.  *)
(*                                                                         *)
(* State: the three Firestore collections (emergencies, devices,           *)
(* audit_logs), the messages handed to Firebase Cloud Messaging, the       *)
(* wall clock, the ADMIN_TOKEN of the environment, and the HTTP requests   *)
(* in flight.  Every `await` of a handler is one step of the request that  *)
(* runs it, so the steps of concurrent requests interleave exactly where   *)
(* the event loop can switch between them.                                 *)
(***************************************************************************)
EXTENDS Integers, Sequences, FiniteSets, TLC

(***************************************************************************)
(* Bounds of the model.                                                    *)
(***************************************************************************)
StartTime == 1000000
MaxTick == 1
MaxElderly == 2
MaxVolunteer == 2
NumSlots == 2
MaxEmergency == 2
MaxCandidates == 12

(***************************************************************************)
(* JavaScript values.  Numeric fields hold integers; null is 0 (ids and    *)
(* timestamps of the program are positive), undefined / non-numeric is     *)
(* Undefined.  The empty string stands for an absent string.               *)
(***************************************************************************)
Null == 0
Undefined == -1000

Truthy(x) == x # Null /\ x # Undefined
IsNumber(x) == x # Undefined
Min(a, b) == IF a <= b THEN a ELSE b
Abs(x) == IF x < 0 THEN -x ELSE x

(***************************************************************************)
(* Program constants.  The clock of the model counts seconds, not the      *)
(* milliseconds of Date.now(): TLC's integers have 32 bits, and every      *)
(* duration of the program is a whole number of seconds.                   *)
(***************************************************************************)
maxAgeSec == 10 * 60
DaySec == 24 * 60 * 60
DefaultDays == 30
QueryLimit == 200
TopN == 10

(***************************************************************************)
(* Input domains.                                                          *)
(***************************************************************************)
Instants == {StartTime + k : k \in 0..MaxTick}
EmergencyIds == StartTime..(StartTime + MaxEmergency - 1)
ElderlyIds == 1..MaxElderly
VolunteerIds == 1..MaxVolunteer
Slots == 1..NumSlots
Lats == {0}
Lons == {0}
DeviceKeys == ({"elderly"} \X ElderlyIds) \cup ({"volunteer"} \X VolunteerIds)
\* Push tokens are opaque strings to the program; the model numbers them,
\* one per device, and writes an absent token as Null.
TokenOf(role, userId) == IF role = "elderly" THEN 100 + userId ELSE 200 + userId

VARIABLES now, emergencies, devices, audit_logs, sent, ADMIN_TOKEN, reqs, hist

vars == <<now, emergencies, devices, audit_logs, sent, ADMIN_TOKEN, reqs, hist>>

(***************************************************************************)
(* Documents.  A missing document is a record with exists = FALSE.         *)
(***************************************************************************)
NoEmergency == [exists |-> FALSE, id |-> Null, elderlyId |-> Null,
                latitude |-> Null, longitude |-> Null, status |-> "",
                volunteerId |-> Null, createdAt |-> Null, updatedAt |-> Null,
                acceptedAt |-> Null]

NoDevice == [exists |-> FALSE, userId |-> Null, role |-> "", fcmToken |-> Null,
             isAvailable |-> FALSE, latitude |-> Undefined,
             longitude |-> Undefined, lastSeenAt |-> Null]

(***************************************************************************)
(* A request slot: the handler it runs (op), the await it is parked at     *)
(* (pc), the parsed request, the handler's local variables and the HTTP    *)
(* status it answered (result, 0 while pending).  committed, reporter and  *)
(* overwrote are history: whether the accept transaction of this call      *)
(* committed, the elderlyId of the record it committed on, and whether the *)
(* write of this Report replaced a stored record by a different one.  out  *)
(* is the array ListActive builds and answers.                             *)
(***************************************************************************)
Idle == [op |-> "idle", pc |-> "idle", result |-> 0, emergencyId |-> Null,
         elderly_id |-> Null, volunteer_id |-> Null, status |-> "",
         latitude |-> Null, longitude |-> Null, now |-> Null, tokens |-> <<>>, notified |-> <<>>,
         elderlyId |-> Null, elderlyToken |-> Null, snap |-> {}, cutoff |-> Null,
         out |-> <<>>,
         committed |-> FALSE, reporter |-> Null, overwrote |-> FALSE]

\* res.status(code).json(...): the handler is over and its locals are dead;
\* the slot keeps the request, the history and the body of a 200 answer.
Respond(req, code) ==
    [Idle EXCEPT !.op = req.op, !.pc = "done", !.result = code,
                 !.out = IF code = 200 THEN req.out ELSE <<>>,
                 !.emergencyId = req.emergencyId, !.elderly_id = req.elderly_id,
                 !.volunteer_id = req.volunteer_id, !.committed = req.committed,
                 !.reporter = req.reporter, !.overwrote = req.overwrote]

(***************************************************************************)
(* History per emergency id: wins lists the volunteers whose accept        *)
(* transaction committed on the id (at most the first two are kept),       *)
(* viaAccept says whether the record now stored under the id was accepted  *)
(* by an accept transaction, reported whether a Report ever wrote a record *)
(* under the id.                                                           *)
(***************************************************************************)
NoHist == [wins |-> <<>>, viaAccept |-> FALSE, reported |-> FALSE]

(***************************************************************************)
(* Initial states.  The collections live in Firestore and outlast the      *)
(* server, so a run starts from a store earlier requests have left.  The   *)
(* stores below are the ones these request sequences leave, all answered   *)
(* at StartTime:                                                           *)
(*   emergencies  nothing | Report(elderly 1) | Report(elderly 1) followed *)
(*                by Accept(volunteer 1);                                  *)
(*   devices      nothing | afterwards, every elderly user and every       *)
(*                volunteer registers (volunteers available, volunteer v   *)
(*                at longitude v - 1).                                     *)
(***************************************************************************)
ReportedDoc ==
    [exists |-> TRUE, id |-> StartTime, elderlyId |-> 1, latitude |-> 0,
     longitude |-> 0, status |-> "active", volunteerId |-> Null,
     createdAt |-> StartTime, updatedAt |-> StartTime, acceptedAt |-> Null]

InitStores ==
    LET created == [emergencyId |-> StartTime, action |-> "created",
                    actorRole |-> "elderly", actorUserId |-> 1,
                    notifiedVolunteerUserIds |-> <<>>, createdAt |-> StartTime]
        accepted == [emergencyId |-> StartTime, action |-> "accepted",
                     actorRole |-> "volunteer", actorUserId |-> 1,
                     notifiedVolunteerUserIds |-> <<>>, createdAt |-> StartTime]
    IN  { [doc |-> NoEmergency, audit |-> {}, hist |-> NoHist],
          [doc |-> ReportedDoc, audit |-> {created},
           hist |-> [NoHist EXCEPT !.reported = TRUE]],
          [doc |-> [ReportedDoc EXCEPT !.status = "accepted", !.volunteerId = 1,
                                       !.acceptedAt = StartTime],
           audit |-> {created, accepted},
           hist |-> [wins |-> <<1>>, viaAccept |-> TRUE, reported |-> TRUE]] }

InitDevices ==
    { [k \in DeviceKeys |-> NoDevice],
      [k \in DeviceKeys |->
          [exists |-> TRUE, userId |-> k[2], role |-> k[1],
           fcmToken |-> TokenOf(k[1], k[2]),
           isAvailable |-> (k[1] = "volunteer"),
           latitude |-> IF k[1] = "volunteer" THEN 0 ELSE Undefined,
           longitude |-> IF k[1] = "volunteer" THEN k[2] - 1 ELSE Undefined,
           lastSeenAt |-> StartTime]] }

Init ==
    /\ now = StartTime
    /\ \E st \in InitStores :
          /\ emergencies = [i \in EmergencyIds |->
                               IF i = StartTime THEN st.doc ELSE NoEmergency]
          /\ audit_logs = st.audit
          /\ hist = [i \in EmergencyIds |->
                        IF i = StartTime THEN st.hist ELSE NoHist]
    /\ devices \in InitDevices
    /\ sent = {}
    /\ ADMIN_TOKEN \in {"", "secret"}
    /\ reqs = [r \in Slots |-> Idle]

\* A request takes the lowest slot not used yet: each slot runs one request.
Free(r) ==
    /\ reqs[r].op = "idle"
    /\ IF r = 1 THEN TRUE ELSE reqs[r - 1].op # "idle"

(***************************************************************************)
(* Date.now() advances.                                                    *)
(***************************************************************************)
Tick ==
    /\ now + 1 \in Instants
    /\ now' = now + 1
    /\ UNCHANGED <<emergencies, devices, audit_logs, sent, ADMIN_TOKEN, reqs, hist>>

(***************************************************************************)
(* Geo Distance Utility.  Every coordinate of the model lies on the        *)
(* equator (Lats = {0}), where the haversine formula reduces to            *)
(* R * |dLon| * pi / 180, that is 111.195 km per degree; the distance is   *)
(* kept in metres to stay in the integers.                                 *)
(***************************************************************************)
haversineKm(aLat, aLon, bLat, bLon) == 111195 * Abs(bLon - aLon)

(***************************************************************************)
(* Volunteer Selector: the query of Report over the devices collection,    *)
(* the freshness / token filter, the distance, the stable sort and top 10. *)
(***************************************************************************)
\* The query answers in document-id order: volunteer_1, volunteer_2, ...
DevicesSnap(devs) ==
    LET n == Cardinality({k \in DOMAIN devs : k[1] = "volunteer"})
        all == [i \in 1..n |-> devs[<<"volunteer", i>>]]
        hit == SelectSeq(all, LAMBDA d : d.exists /\ d.role = "volunteer"
                                         /\ d.isAvailable = TRUE)
    IN  SubSeq(hit, 1, Min(Len(hit), QueryLimit))

FreshTokenOnly(d, t) == d.fcmToken # Null

Fresh(d, t) ==
    LET lastSeenAt == IF IsNumber(d.lastSeenAt) THEN d.lastSeenAt ELSE 0
    IN  /\ d.fcmToken # Null
        /\ ~(t - lastSeenAt > maxAgeSec)

Candidate(d, latitude, longitude) ==
    [userId |-> d.userId, fcmToken |-> d.fcmToken,
     distanceKm |-> IF IsNumber(d.latitude) /\ IsNumber(d.longitude)
                    THEN haversineKm(latitude, longitude, d.latitude, d.longitude)
                    ELSE Undefined]

Filtered(snap, latitude, longitude, t) ==
    LET kept == SelectSeq(snap, LAMBDA d : Fresh(d, t))
    IN  [i \in 1..Len(kept) |-> Candidate(kept[i], latitude, longitude)]

\* The comparator of volunteers.sort: negative, zero or positive.
Compare(a, b) ==
    IF a.distanceKm = Undefined /\ b.distanceKm = Undefined THEN 0
    ELSE IF a.distanceKm = Undefined THEN 1
    ELSE IF b.distanceKm = Undefined THEN -1
    ELSE a.distanceKm - b.distanceKm

\* Array.prototype.sort is stable: x goes after every element not greater.
RECURSIVE InsertSorted(_, _)
InsertSorted(x, s) ==
    IF s = <<>> THEN <<x>>
    ELSE IF Compare(Head(s), x) <= 0 THEN <<Head(s)>> \o InsertSorted(x, Tail(s))
    ELSE <<x>> \o s

RECURSIVE SortVolunteers(_)
SortVolunteers(s) ==
    IF s = <<>> THEN <<>>
    ELSE InsertSorted(s[Len(s)], SortVolunteers(SubSeq(s, 1, Len(s) - 1)))

TopAll(volunteers) == volunteers

Top(volunteers) == SubSeq(volunteers, 1, Min(Len(volunteers), TopN))

SelectVolunteers(devs, latitude, longitude, t) ==
    Top(SortVolunteers(Filtered(DevicesSnap(devs), latitude, longitude, t)))

TokensOf(top) ==
    LET all == [i \in 1..Len(top) |-> top[i].fcmToken]
    IN  SelectSeq(all, LAMBDA tok : tok # Null)

NotifiedOf(top) ==
    LET all == [i \in 1..Len(top) |-> top[i].userId]
    IN  SelectSeq(all, LAMBDA u : IsNumber(u))

(***************************************************************************)
(* Audit entries and push messages (uniform records; fields a kind of      *)
(* entry does not carry hold Null / the empty sequence).                   *)
(***************************************************************************)
AuditEntry(emergencyId, action, actorRole, actorUserId, notified, t) ==
    [emergencyId |-> emergencyId, action |-> action, actorRole |-> actorRole,
     actorUserId |-> actorUserId, notifiedVolunteerUserIds |-> notified,
     createdAt |-> t]

NewMessage(tokens, emergencyId, elderly_id, latitude, longitude) ==
    [type |-> "emergency_new", tokens |-> tokens, emergency_id |-> emergencyId,
     elderly_id |-> elderly_id, volunteer_id |-> Null,
     latitude |-> latitude, longitude |-> longitude]

AcceptedMessage(token, emergencyId, volunteer_id) ==
    [type |-> "emergency_accepted", tokens |-> <<token>>,
     emergency_id |-> emergencyId, elderly_id |-> Null,
     volunteer_id |-> volunteer_id, latitude |-> Null, longitude |-> Null]

(***************************************************************************)
(* Report: POST /api/emergencies.                                          *)
(***************************************************************************)
ReportValidNoLatitude(elderly_id, latitude, longitude) ==
    Truthy(elderly_id) /\ IsNumber(longitude)

ReportValid(elderly_id, latitude, longitude) ==
    Truthy(elderly_id) /\ IsNumber(latitude) /\ IsNumber(longitude)

DeriveId(timestamp, t) ==
    IF Truthy(timestamp) /\ timestamp > 0 THEN timestamp ELSE t

ReportStatus(status) == IF status # "" THEN status ELSE "active"

EmergencyDoc(emergencyId, elderly_id, latitude, longitude, status, t) ==
    [exists |-> TRUE, id |-> emergencyId, elderlyId |-> elderly_id,
     latitude |-> latitude, longitude |-> longitude,
     status |-> ReportStatus(status), volunteerId |-> Null,
     createdAt |-> t, updatedAt |-> t, acceptedAt |-> Null]

\* set(emergencyDoc, {merge: false}): the document stored under the id
\* becomes the new one, whatever was there.
SetDoc(old, new) == new

Differs(old, new) ==
    \/ old.status # new.status \/ old.volunteerId # new.volunteerId
    \/ old.elderlyId # new.elderlyId \/ old.createdAt # new.createdAt

\* The request arrives, is validated, and its first write is applied.
ReportCreate(r, elderly_id, latitude, longitude, timestamp, status) ==
    /\ Free(r)
    /\ LET emergencyId == DeriveId(timestamp, now)
           req == [Idle EXCEPT !.op = "report", !.emergencyId = emergencyId,
                               !.elderly_id = elderly_id, !.status = status,
                               !.latitude = latitude, !.longitude = longitude,
                               !.now = now]
       IN  IF ~ReportValid(elderly_id, latitude, longitude)
           THEN /\ reqs' = [reqs EXCEPT ![r] = Respond([Idle EXCEPT !.op = "report"], 400)]
                /\ UNCHANGED <<emergencies, hist>>
           ELSE /\ emergencyId \in EmergencyIds
                /\ emergencies' = [emergencies EXCEPT ![emergencyId] =
                       SetDoc(@, EmergencyDoc(emergencyId, elderly_id, latitude,
                                              longitude, status, now))]
                /\ hist' = [hist EXCEPT ![emergencyId].viaAccept = FALSE,
                                        ![emergencyId].reported = TRUE]
                /\ reqs' = [reqs EXCEPT ![r] =
                       [req EXCEPT !.pc = "audit_created",
                                   !.overwrote =
                                       /\ emergencies[emergencyId].exists
                                       /\ Differs(emergencies[emergencyId],
                                                  emergencies'[emergencyId])]]
    /\ UNCHANGED <<now, devices, audit_logs, sent, ADMIN_TOKEN>>

ReportAuditSkipped(r) ==
    /\ reqs[r].op = "report" /\ reqs[r].pc = "audit_created"
    /\ reqs' = [reqs EXCEPT ![r].pc = "devices_query"]
    /\ UNCHANGED <<now, emergencies, devices, audit_logs, sent, ADMIN_TOKEN, hist>>

ReportAuditCreated(r) ==
    /\ reqs[r].op = "report" /\ reqs[r].pc = "audit_created"
    /\ audit_logs' = audit_logs \cup
           {AuditEntry(reqs[r].emergencyId, "created", "elderly",
                       reqs[r].elderly_id, <<>>, reqs[r].now)}
    /\ reqs' = [reqs EXCEPT ![r].pc = "devices_query"]
    /\ UNCHANGED <<now, emergencies, devices, sent, ADMIN_TOKEN, hist>>

ReportSelect(r) ==
    /\ reqs[r].op = "report" /\ reqs[r].pc = "devices_query"
    /\ LET top == SelectVolunteers(devices, reqs[r].latitude, reqs[r].longitude,
                                   reqs[r].now)
           tokens == TokensOf(top)
       IN  reqs' = [reqs EXCEPT ![r] =
                IF Len(tokens) = 0 THEN Respond(@, 201)
                ELSE [@ EXCEPT !.pc = "multicast", !.tokens = tokens,
                               !.notified = NotifiedOf(top)]]
    /\ UNCHANGED <<now, emergencies, devices, audit_logs, sent, ADMIN_TOKEN, hist>>

ReportMulticast(r) ==
    /\ reqs[r].op = "report" /\ reqs[r].pc = "multicast"
    /\ sent' = sent \cup {NewMessage(reqs[r].tokens, reqs[r].emergencyId,
                                     reqs[r].elderly_id, reqs[r].latitude,
                                     reqs[r].longitude)}
    /\ reqs' = [reqs EXCEPT ![r].pc = "audit_pushed"]
    /\ UNCHANGED <<now, emergencies, devices, audit_logs, ADMIN_TOKEN, hist>>

ReportAuditPushed(r) ==
    /\ reqs[r].op = "report" /\ reqs[r].pc = "audit_pushed"
    /\ audit_logs' = audit_logs \cup
           {AuditEntry(reqs[r].emergencyId, "pushed_to_volunteers", "system",
                       Null, reqs[r].notified, now)}
    /\ reqs' = [reqs EXCEPT ![r] = Respond(@, 201)]
    /\ UNCHANGED <<now, emergencies, devices, sent, ADMIN_TOKEN, hist>>

(***************************************************************************)
(* ListActive: GET /api/emergencies/active.  Two queries, each one await:  *)
(* the active records, then (with a volunteer id) the records accepted by  *)
(* that volunteer.  A query answers in document-id order, at most 200.     *)
(***************************************************************************)
SortedIds(S) ==
    [k \in 1..Cardinality(S) |->
        CHOOSE i \in S : Cardinality({j \in S : j < i}) = k - 1]

Limited(ids) == SubSeq(ids, 1, Min(Len(ids), QueryLimit))

ActiveSnap(ems) ==
    Limited(SortedIds({i \in EmergencyIds :
                          ems[i].exists /\ ems[i].status = "active"}))

AcceptedSnapAnyVolunteer(ems, volunteerId) ==
    Limited(SortedIds({i \in EmergencyIds :
                          ems[i].exists /\ ems[i].status = "accepted"}))

AcceptedSnap(ems, volunteerId) ==
    Limited(SortedIds({i \in EmergencyIds :
                          /\ ems[i].exists /\ ems[i].status = "accepted"
                          /\ ems[i].volunteerId = volunteerId}))

\* emergencies.map((e) => ({...})), one element.
ListEntry(e) ==
    [id |-> e.id, elderly_id |-> e.elderlyId, latitude |-> e.latitude,
     longitude |-> e.longitude,
     timestamp |-> IF Truthy(e.createdAt) THEN e.createdAt ELSE e.id,
     status |-> e.status, volunteer_id |-> e.volunteerId]

Entries(ems, ids) == [k \in 1..Len(ids) |-> ListEntry(ems[ids[k]])]

\* The request arrives and the query for the active records answers.
ListActiveQuery(r, volunteer_id) ==
    /\ Free(r)
    /\ LET volunteerId == IF Truthy(volunteer_id) THEN volunteer_id ELSE Null
           req == [Idle EXCEPT !.op = "list", !.volunteer_id = volunteerId,
                               !.out = Entries(emergencies, ActiveSnap(emergencies))]
       IN  reqs' = [reqs EXCEPT ![r] =
                IF Truthy(volunteerId) THEN [req EXCEPT !.pc = "accepted_query"]
                ELSE Respond(req, 200)]
    /\ UNCHANGED <<now, emergencies, devices, audit_logs, sent, ADMIN_TOKEN, hist>>

\* The query for the records accepted by the volunteer answers; res.json(out).
ListAcceptedQuery(r) ==
    /\ reqs[r].op = "list" /\ reqs[r].pc = "accepted_query"
    /\ reqs' = [reqs EXCEPT ![r] =
           Respond([@ EXCEPT !.out = @ \o Entries(emergencies,
                                 AcceptedSnap(emergencies, reqs[r].volunteer_id))],
                   200)]
    /\ UNCHANGED <<now, emergencies, devices, audit_logs, sent, ADMIN_TOKEN, hist>>

(***************************************************************************)
(* Accept: PUT /api/emergencies/:id with status 'accepted'.                *)
(***************************************************************************)
\* What the transaction body decides on the snapshot it read: 404 for
\* NOT_FOUND, 409 for ALREADY_TAKEN, 200 when it goes on to tx.update.
AcceptOutcomeUnchecked(doc) == IF ~doc.exists THEN 404 ELSE 200

AcceptOutcomeOnlyConflict(doc) ==
    IF doc.exists /\ doc.status = "active" THEN 200 ELSE 409

AcceptOutcome(doc) ==
    IF ~doc.exists THEN 404
    ELSE IF doc.status # "active" THEN 409
    ELSE 200

\* tx.update(ref, {status, volunteerId, acceptedAt, updatedAt}).
AcceptedDoc(doc, volunteer_id, t) ==
    [doc EXCEPT !.status = "accepted", !.volunteerId = volunteer_id,
                !.acceptedAt = t, !.updatedAt = t]

RecordWin(h, volunteer_id) ==
    [h EXCEPT !.wins = IF Len(@) < 2 THEN Append(@, volunteer_id) ELSE @,
              !.viaAccept = TRUE]

AcceptTxWritesFirst(r, emergencyId, volunteer_id) ==
    /\ Free(r)
    /\ LET req == [Idle EXCEPT !.op = "accept", !.emergencyId = emergencyId,
                               !.volunteer_id = volunteer_id,
                               !.status = "accepted"]
           doc == emergencies[emergencyId]
           outcome == AcceptOutcome(doc)
       IN  IF ~Truthy(volunteer_id)
           THEN /\ reqs' = [reqs EXCEPT ![r] = Respond(req, 400)]
                /\ UNCHANGED <<emergencies, hist>>
           ELSE IF outcome = 404
           THEN /\ reqs' = [reqs EXCEPT ![r] = Respond(req, outcome)]
                /\ UNCHANGED <<emergencies, hist>>
           ELSE /\ emergencies' = [emergencies EXCEPT ![emergencyId] =
                                       AcceptedDoc(doc, volunteer_id, now)]
                /\ hist' = [hist EXCEPT ![emergencyId] = RecordWin(@, volunteer_id)]
                /\ reqs' = [reqs EXCEPT ![r] =
                       IF outcome = 409 THEN Respond(req, outcome)
                       ELSE [req EXCEPT !.pc = "audit_accepted", !.committed = TRUE,
                                        !.reporter = doc.elderlyId]]
    /\ UNCHANGED <<now, devices, audit_logs, sent, ADMIN_TOKEN>>

\* The request arrives and db.runTransaction runs: Firestore serialises the
\* transaction against every other write of the document, so its read,
\* check and update are one step.
AcceptTx(r, emergencyId, volunteer_id) ==
    /\ Free(r)
    /\ LET req == [Idle EXCEPT !.op = "accept", !.emergencyId = emergencyId,
                               !.volunteer_id = volunteer_id,
                               !.status = "accepted"]
           doc == emergencies[emergencyId]
           outcome == AcceptOutcome(doc)
       IN  IF ~Truthy(volunteer_id)
           THEN /\ reqs' = [reqs EXCEPT ![r] = Respond(req, 400)]
                /\ UNCHANGED <<emergencies, hist>>
           ELSE IF outcome # 200
           THEN /\ reqs' = [reqs EXCEPT ![r] = Respond(req, outcome)]
                /\ UNCHANGED <<emergencies, hist>>
           ELSE /\ emergencies' = [emergencies EXCEPT ![emergencyId] =
                                       AcceptedDoc(doc, volunteer_id, now)]
                /\ hist' = [hist EXCEPT ![emergencyId] = RecordWin(@, volunteer_id)]
                /\ reqs' = [reqs EXCEPT ![r] =
                       [req EXCEPT !.pc = "audit_accepted", !.committed = TRUE,
                                   !.reporter = doc.elderlyId]]
    /\ UNCHANGED <<now, devices, audit_logs, sent, ADMIN_TOKEN>>

AcceptAudit(r) ==
    /\ reqs[r].op = "accept" /\ reqs[r].pc = "audit_accepted"
    /\ audit_logs' = audit_logs \cup
           {AuditEntry(reqs[r].emergencyId, "accepted", "volunteer",
                       reqs[r].volunteer_id, <<>>, now)}
    /\ reqs' = [reqs EXCEPT ![r].pc = "reread"]
    /\ UNCHANGED <<now, emergencies, devices, sent, ADMIN_TOKEN, hist>>

\* const emergency = (await ref.get()).data()
AcceptReread(r) ==
    /\ reqs[r].op = "accept" /\ reqs[r].pc = "reread"
    /\ LET emergency == emergencies[reqs[r].emergencyId]
       IN  reqs' = [reqs EXCEPT ![r] =
                IF emergency.exists /\ emergency.elderlyId # Null
                THEN [@ EXCEPT !.pc = "device_get", !.elderlyId = emergency.elderlyId]
                ELSE Respond(@, 200)]
    /\ UNCHANGED <<now, emergencies, devices, audit_logs, sent, ADMIN_TOKEN, hist>>

AcceptDeviceGet(r) ==
    /\ reqs[r].op = "accept" /\ reqs[r].pc = "device_get"
    /\ LET elderlyDevice == devices[<<"elderly", reqs[r].elderlyId>>]
           elderlyToken == IF elderlyDevice.exists THEN elderlyDevice.fcmToken ELSE Null
       IN  reqs' = [reqs EXCEPT ![r] =
                IF elderlyToken # Null
                THEN [@ EXCEPT !.pc = "send", !.elderlyToken = elderlyToken]
                ELSE Respond(@, 200)]
    /\ UNCHANGED <<now, emergencies, devices, audit_logs, sent, ADMIN_TOKEN, hist>>

AcceptSend(r) ==
    /\ reqs[r].op = "accept" /\ reqs[r].pc = "send"
    /\ sent' = sent \cup {AcceptedMessage(reqs[r].elderlyToken, reqs[r].emergencyId,
                                          reqs[r].volunteer_id)}
    /\ reqs' = [reqs EXCEPT ![r] = Respond(@, 200)]
    /\ UNCHANGED <<now, emergencies, devices, audit_logs, ADMIN_TOKEN, hist>>

(***************************************************************************)
(* SetStatus: PUT /api/emergencies/:id with any other status.              *)
(***************************************************************************)
SetStatuses == {"active", "resolved"}

\* ref.update(patch): status and updatedAt, and volunteerId when the body
\* carries volunteer_id (null clears it).
PatchedDoc(doc, status, volunteer_id, t) ==
    [doc EXCEPT !.status = status, !.updatedAt = t,
                !.volunteerId = IF volunteer_id = Undefined THEN @ ELSE volunteer_id]

\* The request arrives and `await ref.get()` answers.
SetStatusGet(r, emergencyId, status, volunteer_id) ==
    /\ Free(r)
    /\ LET req == [Idle EXCEPT !.op = "setstatus", !.emergencyId = emergencyId,
                               !.status = status, !.volunteer_id = volunteer_id,
                               !.now = now]
       IN  reqs' = [reqs EXCEPT ![r] =
                IF emergencies[emergencyId].exists
                THEN [req EXCEPT !.pc = "update"]
                ELSE Respond(req, 404)]
    /\ UNCHANGED <<now, emergencies, devices, audit_logs, sent, ADMIN_TOKEN, hist>>

\* update() of a document that is gone rejects (status 500).
SetStatusUpdate(r) ==
    /\ reqs[r].op = "setstatus" /\ reqs[r].pc = "update"
    /\ LET doc == emergencies[reqs[r].emergencyId]
       IN  IF doc.exists
           THEN /\ emergencies' = [emergencies EXCEPT ![reqs[r].emergencyId] =
                       PatchedDoc(doc, reqs[r].status, reqs[r].volunteer_id, reqs[r].now)]
                /\ reqs' = [reqs EXCEPT ![r].pc = "audit_status"]
           ELSE /\ reqs' = [reqs EXCEPT ![r] = Respond(@, 500)]
                /\ UNCHANGED emergencies
    /\ UNCHANGED <<now, devices, audit_logs, sent, ADMIN_TOKEN, hist>>

SetStatusAudit(r) ==
    /\ reqs[r].op = "setstatus" /\ reqs[r].pc = "audit_status"
    /\ audit_logs' = audit_logs \cup
           {AuditEntry(reqs[r].emergencyId, "status_" \o reqs[r].status, "system",
                       Null, <<>>, now)}
    /\ reqs' = [reqs EXCEPT ![r] = Respond(@, 200)]
    /\ UNCHANGED <<now, emergencies, devices, sent, ADMIN_TOKEN, hist>>

(***************************************************************************)
(* RetentionSweep: POST /api/admin/cleanup.                                *)
(***************************************************************************)
\* process.env.RETENTION_DAYS: not set in the environment modelled.
RETENTION_DAYS == Undefined

ForbiddenFailOpen(envToken, token) == envToken # "" /\ token # envToken

Forbidden(envToken, token) == envToken = "" \/ token # envToken

Days(days) ==
    IF days # Undefined THEN days
    ELSE IF Truthy(RETENTION_DAYS) THEN RETENTION_DAYS ELSE DefaultDays

Cutoff(days, t) == t - days * DaySec

\* where('createdAt', '<', cutoff).limit(200): the query is ordered by
\* createdAt, so the limit keeps the oldest matches.
Expired(ems, cutoff) ==
    LET hit == {i \in EmergencyIds : ems[i].exists /\ ems[i].createdAt < cutoff}
    IN  IF Cardinality(hit) <= QueryLimit THEN hit
        ELSE CHOOSE S \in SUBSET hit :
                 /\ Cardinality(S) = QueryLimit
                 /\ \A i \in S, j \in hit \ S : ems[i].createdAt <= ems[j].createdAt

\* The request arrives, the credential is checked and the query answers.
CleanupQuery(r, token, days) ==
    /\ Free(r)
    /\ LET req == [Idle EXCEPT !.op = "cleanup"]
           snap == Expired(emergencies, Cutoff(Days(days), now))
       IN  reqs' = [reqs EXCEPT ![r] =
                IF Forbidden(ADMIN_TOKEN, token) THEN Respond(req, 403)
                ELSE IF snap = {} THEN Respond(req, 200)
                ELSE [req EXCEPT !.pc = "commit", !.snap = snap,
                                 !.cutoff = Cutoff(Days(days), now)]]
    /\ UNCHANGED <<now, emergencies, devices, audit_logs, sent, ADMIN_TOKEN, hist>>

\* batch.commit(): every document of the snapshot is deleted.
CleanupCommit(r) ==
    /\ reqs[r].op = "cleanup" /\ reqs[r].pc = "commit"
    /\ emergencies' = [i \in EmergencyIds |->
                          IF i \in reqs[r].snap THEN NoEmergency ELSE emergencies[i]]
    /\ hist' = [i \in EmergencyIds |->
                   IF i \in reqs[r].snap THEN [hist[i] EXCEPT !.viaAccept = FALSE]
                   ELSE hist[i]]
    /\ reqs' = [reqs EXCEPT ![r] = Respond(@, 200)]
    /\ UNCHANGED <<now, devices, audit_logs, sent, ADMIN_TOKEN>>

(***************************************************************************)
(* Device Directory: POST /api/devices/register and                        *)
(* POST /api/volunteers/availability.  Each handler has one await, the     *)
(* merge-write, so each request is one step.                               *)
(***************************************************************************)
RegisteredDoc(old, user_id, role, fcm_token, is_available, latitude, longitude, t) ==
    [exists |-> TRUE, userId |-> user_id, role |-> role, fcmToken |-> fcm_token,
     isAvailable |-> is_available, latitude |-> latitude, longitude |-> longitude,
     lastSeenAt |-> t]

Register(r, user_id, role, fcm_token, is_available, latitude, longitude) ==
    /\ Free(r)
    /\ IF ~Truthy(user_id) \/ role = "" \/ fcm_token = Null
       THEN /\ reqs' = [reqs EXCEPT ![r] = Respond([Idle EXCEPT !.op = "register"], 400)]
            /\ UNCHANGED devices
       ELSE /\ <<role, user_id>> \in DeviceKeys
            /\ devices' = [devices EXCEPT ![<<role, user_id>>] =
                   RegisteredDoc(@, user_id, role, fcm_token, is_available,
                                 latitude, longitude, now)]
            /\ reqs' = [reqs EXCEPT ![r] = Respond([Idle EXCEPT !.op = "register"], 200)]
    /\ UNCHANGED <<now, emergencies, audit_logs, sent, ADMIN_TOKEN, hist>>

AvailabilityDocReplace(old, volunteer_id, is_available, latitude, longitude, fcm_token, t) ==
    [exists |-> TRUE, userId |-> volunteer_id, role |-> "volunteer",
     fcmToken |-> fcm_token, isAvailable |-> is_available,
     latitude |-> latitude, longitude |-> longitude, lastSeenAt |-> t]

AvailabilityDoc(old, volunteer_id, is_available, latitude, longitude, fcm_token, t) ==
    [exists |-> TRUE, userId |-> volunteer_id, role |-> "volunteer",
     fcmToken |-> IF fcm_token # Null THEN fcm_token ELSE old.fcmToken,
     isAvailable |-> is_available,
     latitude |-> IF IsNumber(latitude) THEN latitude ELSE old.latitude,
     longitude |-> IF IsNumber(longitude) THEN longitude ELSE old.longitude,
     lastSeenAt |-> t]

Availability(r, volunteer_id, is_available, latitude, longitude, fcm_token) ==
    /\ Free(r)
    /\ IF ~Truthy(volunteer_id)
       THEN /\ reqs' = [reqs EXCEPT ![r] =
                   Respond([Idle EXCEPT !.op = "availability"], 400)]
            /\ UNCHANGED devices
       ELSE /\ volunteer_id \in VolunteerIds
            /\ devices' = [devices EXCEPT ![<<"volunteer", volunteer_id>>] =
                   AvailabilityDoc(@, volunteer_id, is_available, latitude,
                                   longitude, fcm_token, now)]
            /\ reqs' = [reqs EXCEPT ![r] =
                   Respond([Idle EXCEPT !.op = "availability"], 200)]
    /\ UNCHANGED <<now, emergencies, audit_logs, sent, ADMIN_TOKEN, hist>>

(***************************************************************************)
(* The call a request awaits rejects (the store or the messaging service   *)
(* is unavailable, a push token is no longer registered): the handler's    *)
(* catch answers 500.  Nothing is undone.  (A rejection of the first await *)
(* of a handler leaves nothing but the 500 answer and is not modelled.)    *)
(***************************************************************************)
Awaiting(req) == req.pc \notin {"idle", "done"}

Rejected(req) == Respond(req, 500)

AfterRejectRollback(ems, req) ==
    IF req.op = "accept" /\ req.committed
    THEN [ems EXCEPT ![req.emergencyId] =
             [@ EXCEPT !.status = "active", !.volunteerId = Null, !.acceptedAt = Null]]
    ELSE ems

\* The catch blocks only answer: the store stays as the request left it.
AfterReject(ems, req) == ems

Fail(r) ==
    /\ Awaiting(reqs[r])
    /\ reqs' = [reqs EXCEPT ![r] = Rejected(@)]
    /\ emergencies' = AfterReject(emergencies, reqs[r])
    /\ UNCHANGED <<now, devices, audit_logs, sent, ADMIN_TOKEN, hist>>

(***************************************************************************)
(* The requests the model sends.                                           *)
(***************************************************************************)
ReportCalls ==
    \E r \in Slots, elderly_id \in ElderlyIds \cup {Undefined},
       latitude \in Lats \cup {Undefined}, longitude \in Lons \cup {Undefined},
       timestamp \in {Undefined, StartTime}, status \in {"", "accepted"} :
        ReportCreate(r, elderly_id, latitude, longitude, timestamp, status)

AcceptCalls ==
    \E r \in Slots, emergencyId \in EmergencyIds,
       volunteer_id \in VolunteerIds \cup {Undefined} :
        AcceptTx(r, emergencyId, volunteer_id)

SetStatusCalls ==
    \E r \in Slots, emergencyId \in EmergencyIds, status \in SetStatuses,
       volunteer_id \in {Undefined, Null} \cup VolunteerIds :
        SetStatusGet(r, emergencyId, status, volunteer_id)

ListCalls ==
    \E r \in Slots, volunteer_id \in VolunteerIds \cup {Undefined} :
        ListActiveQuery(r, volunteer_id)

CleanupCalls ==
    \E r \in Slots, token \in {"", "secret", "wrong"}, days \in {Undefined, 0} :
        CleanupQuery(r, token, days)

RegisterCalls ==
    \E r \in Slots :
        \/ \E user_id \in ElderlyIds \cup {Undefined} :
               Register(r, user_id, "elderly", TokenOf("elderly", user_id), FALSE,
                        Undefined, Undefined)
        \/ \E user_id \in VolunteerIds, is_available \in BOOLEAN :
               Register(r, user_id, "volunteer", TokenOf("volunteer", user_id),
                        is_available, 0, 0)

AvailabilityCalls ==
    \E r \in Slots, volunteer_id \in VolunteerIds \cup {Undefined},
       is_available \in BOOLEAN :
        Availability(r, volunteer_id, is_available, Undefined, Undefined, Null)

Steps ==
    \E r \in Slots :
        \/ ReportAuditCreated(r) \/ ReportSelect(r) \/ ReportMulticast(r)
        \/ ReportAuditPushed(r)
        \/ AcceptAudit(r) \/ AcceptReread(r) \/ AcceptDeviceGet(r) \/ AcceptSend(r)
        \/ SetStatusUpdate(r) \/ SetStatusAudit(r)
        \/ CleanupCommit(r)
        \/ ListAcceptedQuery(r)
        \/ Fail(r)

Next ==
    \/ Tick
    \/ ReportCalls \/ AcceptCalls \/ SetStatusCalls \/ CleanupCalls
    \/ RegisterCalls \/ AvailabilityCalls \/ ListCalls
    \/ Steps

Spec == Init /\ [][Next]_vars

(***************************************************************************)
(* Accept calls alone: the acceptance race, from every initial store.      *)
(***************************************************************************)
AcceptSteps ==
    \E r \in Slots :
        \/ AcceptAudit(r) \/ AcceptReread(r) \/ AcceptDeviceGet(r) \/ AcceptSend(r)
        \/ Fail(r)

AcceptNext == Tick \/ AcceptCalls \/ AcceptSteps

SpecAccept == Init /\ [][AcceptNext]_vars

(***************************************************************************)
(* Report calls and the retention sweep that can delete their records.     *)
(***************************************************************************)
ReportSteps ==
    \E r \in Slots :
        \/ ReportAuditCreated(r) \/ ReportSelect(r) \/ ReportMulticast(r)
        \/ ReportAuditPushed(r)
        \/ CleanupCommit(r)
        \/ Fail(r)

ReportNext == Tick \/ ReportCalls \/ CleanupCalls \/ ReportSteps

SpecReport == Init /\ [][ReportNext]_vars

(***************************************************************************)
(* The retention sweep against the status updates of the records it        *)
(* deletes.                                                                *)
(***************************************************************************)
SweepSteps ==
    \E r \in Slots :
        \/ CleanupCommit(r)
        \/ SetStatusUpdate(r) \/ SetStatusAudit(r)
        \/ Fail(r)

SweepNext == Tick \/ CleanupCalls \/ SetStatusCalls \/ SweepSteps

SpecSweep == Init /\ [][SweepNext]_vars

(***************************************************************************)
(* The Device Directory alone: registrations, and availability updates     *)
(* that supply or omit the location and the push token.                    *)
(***************************************************************************)
DirectoryCalls ==
    \E r \in Slots, volunteer_id \in VolunteerIds \cup {Undefined},
       is_available \in BOOLEAN, latitude \in {Undefined, 0},
       longitude \in {Undefined, 1} :
        \/ Availability(r, volunteer_id, is_available, latitude, longitude, Null)
        \/ /\ volunteer_id # Undefined
           /\ Availability(r, volunteer_id, is_available, latitude, longitude,
                           TokenOf("volunteer", volunteer_id))

DirectoryNext == Tick \/ RegisterCalls \/ DirectoryCalls

SpecDevices == Init /\ [][DirectoryNext]_vars

(***************************************************************************)
(* ListActive calls between the calls that change the status of a record.  *)
(***************************************************************************)
ListSteps ==
    \E r \in Slots :
        \/ ListAcceptedQuery(r)
        \/ AcceptAudit(r) \/ AcceptReread(r) \/ AcceptDeviceGet(r) \/ AcceptSend(r)
        \/ SetStatusUpdate(r) \/ SetStatusAudit(r)
        \/ Fail(r)

ListNext == ListCalls \/ AcceptCalls \/ SetStatusCalls \/ ListSteps

SpecList == Init /\ [][ListNext]_vars

(***************************************************************************)
(* The Volunteer Selector on richer device directories.  One Report runs   *)
(* at StartTime against a directory that does not change.  The directory   *)
(* is either                                                                *)
(*   - MaxVolunteer volunteer documents, each absent or present with or    *)
(*     without a push token, available or not, and last seen just now,     *)
(*     exactly ten minutes ago, a second longer ago, or with no numeric    *)
(*     lastSeenAt (a document some other writer of the collection left);   *)
(*   - MaxCandidates volunteer documents with a token and available, the   *)
(*     second one stale, every other one last seen just now and with or    *)
(*     without a location; volunteer i is SelectorLon(i) degrees east of   *)
(*     the emergency, so encounter order is not distance order and         *)
(*     distances tie.                                                      *)
(***************************************************************************)
SelectorLon(i) == (MaxCandidates - i) % 4

SelectorSeen == {Undefined, StartTime - maxAgeSec - 1, StartTime - maxAgeSec, StartTime}

\* A choice for one volunteer document of the first kind of directory.
FilterChoices ==
    {[present |-> FALSE, token |-> FALSE, available |-> FALSE, seen |-> Undefined]}
    \cup [present : {TRUE}, token : BOOLEAN, available : BOOLEAN, seen : SelectorSeen]

FilterDoc(i, c) ==
    IF ~c.present THEN NoDevice
    ELSE [exists |-> TRUE, userId |-> i, role |-> "volunteer",
          fcmToken |-> IF c.token THEN TokenOf("volunteer", i) ELSE Null,
          isAvailable |-> c.available, latitude |-> 0,
          longitude |-> SelectorLon(i), lastSeenAt |-> c.seen]

RankDoc(i, located) ==
    [exists |-> TRUE, userId |-> i, role |-> "volunteer",
     fcmToken |-> TokenOf("volunteer", i), isAvailable |-> TRUE,
     latitude |-> IF located THEN 0 ELSE Undefined,
     longitude |-> IF located THEN SelectorLon(i) ELSE Undefined,
     lastSeenAt |-> IF i = 2 THEN StartTime - maxAgeSec - 1 ELSE StartTime]

SelectorDevices ==
    LET few == {"volunteer"} \X (1..MaxVolunteer)
        many == {"volunteer"} \X (1..MaxCandidates)
    IN  {[k \in few |-> FilterDoc(k[2], c[k[2]])] :
            c \in [1..MaxVolunteer -> FilterChoices]}
        \cup
        {[k \in many |-> RankDoc(k[2], k[2] \in L)] : L \in SUBSET (1..MaxCandidates)}

InitSelector ==
    /\ now = StartTime
    /\ emergencies = [i \in EmergencyIds |-> NoEmergency]
    /\ audit_logs = {}
    /\ hist = [i \in EmergencyIds |-> NoHist]
    /\ devices \in SelectorDevices
    /\ sent = {}
    /\ ADMIN_TOKEN = ""
    /\ reqs = [r \in Slots |-> Idle]

SelectorCalls ==
    \E elderly_id \in ElderlyIds :
        ReportCreate(1, elderly_id, 0, 0, Undefined, "")

SelectorSteps ==
    \E r \in Slots :
        \/ ReportAuditCreated(r) \/ ReportSelect(r) \/ ReportMulticast(r)
        \/ ReportAuditPushed(r)
        \/ Fail(r)

SelectorNext == SelectorCalls \/ SelectorSteps

SpecSelector == InitSelector /\ [][SelectorNext]_vars

(***************************************************************************)
(* Properties.                                                             *)
(***************************************************************************)
\* The Accept calls on emergency i whose transaction has run.
AcceptsOn(i) ==
    {r \in Slots : reqs[r].op = "accept" /\ reqs[r].emergencyId = i
                   /\ reqs[r].result # 400}

Winners(i) == {r \in AcceptsOn(i) : reqs[r].committed}

\* C1: when Accept calls (with different volunteer ids) race on the same
\* emergency and nothing else writes it, at most one of them commits the
\* transition; once one has, every other call on the id is answered 409
\* Conflict and the record is accepted with the winner's volunteer id; and
\* calls all lose only on a record that is missing or not active, so on an
\* active emergency exactly one call wins.
C1_ExactlyOneAcceptWins ==
    \A i \in EmergencyIds :
        /\ Cardinality(Winners(i)) <= 1
        /\ \A w \in Winners(i) :
              /\ emergencies[i].status = "accepted"
              /\ emergencies[i].volunteerId = reqs[w].volunteer_id
              /\ \A q \in AcceptsOn(i) \ {w} : reqs[q].result = 409
        /\ (AcceptsOn(i) # {} /\ Winners(i) = {}) =>
              /\ ~(emergencies[i].exists /\ emergencies[i].status = "active")
              /\ \A q \in AcceptsOn(i) : reqs[q].result \in {404, 409}

C1_Witness ==
    \E w, q \in Slots :
        /\ reqs[w].op = "accept" /\ reqs[q].op = "accept"
        /\ reqs[w].emergencyId = reqs[q].emergencyId
        /\ reqs[w].volunteer_id # reqs[q].volunteer_id
        /\ reqs[w].committed /\ reqs[w].pc = "reread"
        /\ reqs[q].result = 409
        /\ emergencies[reqs[w].emergencyId].volunteerId = reqs[w].volunteer_id

\* C2: for every emergency id at most one Accept ever commits, whatever
\* Report, Accept, SetStatus and RetentionSweep calls run.
C2_AtMostOneAcceptEver ==
    \A i \in EmergencyIds : Len(hist[i].wins) <= 1

\* C3: a stored record has a volunteerId exactly when its status is
\* accepted, or is a later status of a record that an Accept accepted.
C3_VolunteerIffAccepted ==
    \A i \in EmergencyIds :
        emergencies[i].exists =>
            (emergencies[i].volunteerId # Null
               <=> \/ emergencies[i].status = "accepted"
                   \/ hist[i].viaAccept /\ emergencies[i].status # "active")

\* C4: an Accept on an id without a record is answered 404 NotFound, an
\* Accept on a record whose status is not active is answered 409 Conflict.
C4_NotFoundVersusConflict ==
    [][\A r \in Slots :
          (reqs[r].op = "idle" /\ reqs'[r].op = "accept" /\ reqs'[r].result # 400) =>
              LET doc == emergencies[reqs'[r].emergencyId]
              IN  /\ ~doc.exists => reqs'[r].result = 404
                  /\ (doc.exists /\ doc.status # "active") => reqs'[r].result = 409
                  /\ reqs'[r].result \in {404, 409} => emergencies' = emergencies]_vars

C4_Witness ==
    \E r, q \in Slots :
        /\ reqs[r].op = "accept" /\ reqs[r].result = 409
        /\ emergencies[reqs[r].emergencyId].exists
        /\ reqs[q].op = "accept" /\ reqs[q].result = 404
        /\ ~emergencies[reqs[q].emergencyId].exists

\* C5: when an Accept answers success, and the device record of the
\* reporter of the emergency it accepted has a push token, the
\* "emergency accepted" message with the emergency id and the volunteer id
\* has been handed to the messaging service for exactly that token, after
\* the `accepted` audit entry was appended.
C5_ReporterNotified ==
    [][\A r \in Slots :
          (reqs[r].op = "accept" /\ reqs[r].pc # "done" /\ reqs'[r].result = 200) =>
              LET device == devices[<<"elderly", reqs[r].reporter>>]
              IN  (device.exists /\ device.fcmToken # Null) =>
                      /\ AcceptedMessage(device.fcmToken, reqs[r].emergencyId,
                                         reqs[r].volunteer_id) \in sent'
                      /\ \E e \in audit_logs :
                            /\ e.action = "accepted"
                            /\ e.emergencyId = reqs[r].emergencyId
                            /\ e.actorUserId = reqs[r].volunteer_id]_vars

\* C6: the record a Report persists has status active and no volunteerId,
\* whatever status the request carries.
C6_ReportStoresActive ==
    [][\A r \in Slots :
          (reqs[r].op = "idle" /\ reqs'[r].op = "report"
             /\ reqs'[r].pc = "audit_created") =>
              /\ emergencies'[reqs'[r].emergencyId].status = "active"
              /\ emergencies'[reqs'[r].emergencyId].volunteerId = Null]_vars

\* C7: no Report that answers success has replaced the status, volunteerId,
\* elderlyId or createdAt of a record already stored under its id.
C7_ReportNeverOverwrites ==
    \A r \in Slots :
        ~(reqs[r].op = "report" /\ reqs[r].result = 201 /\ reqs[r].overwrote)

NewMessages == {m \in sent : m.type = "emergency_new"}

CreatedFor(emergencyId, elderly_id) ==
    {e \in audit_logs : /\ e.action = "created" /\ e.emergencyId = emergencyId
                        /\ e.actorUserId = elderly_id}

\* C8 (as claimed): a "new emergency" message is handed over only while
\* its emergency id has a record in the store and a `created` audit entry.
C8_NotifyOnlyWhileRecorded ==
    [][\A m \in NewMessages' \ NewMessages :
          /\ emergencies[m.emergency_id].exists
          /\ CreatedFor(m.emergency_id, m.elderly_id) # {}]_vars

\* C8 (amended): a Report writes the record, then appends the `created`
\* audit entry, then hands over the "new emergency" message, then appends
\* the `pushed_to_volunteers` entry: every message follows a `created` entry
\* of its emergency and reporter, every `created` entry follows the write
\* of a record under its id, and every `pushed_to_volunteers` entry follows
\* a message of its emergency.  The record may be gone by then.
C8_RecordAuditNotifyOrder ==
    /\ \A m \in NewMessages :
          /\ hist[m.emergency_id].reported
          /\ CreatedFor(m.emergency_id, m.elderly_id) # {}
    /\ \A e \in audit_logs :
          /\ e.action = "created" => hist[e.emergencyId].reported
          /\ e.action = "pushed_to_volunteers" =>
                \E m \in NewMessages : m.emergency_id = e.emergencyId

C8_Witness ==
    \E m \in NewMessages :
        /\ ~emergencies[m.emergency_id].exists
        /\ \E e \in audit_logs : /\ e.action = "pushed_to_volunteers"
                                 /\ e.emergencyId = m.emergency_id

\* C9: when the send of a notification rejects, the Report still answers
\* 201 and the Accept still answers 200.
C9_SendFailureIsNotFailure ==
    [][\A r \in Slots :
          (reqs[r].pc \in {"multicast", "send"} /\ reqs'[r].pc = "done") =>
              reqs'[r].result = IF reqs[r].op = "report" THEN 201 ELSE 200]_vars

\* C10: an Accept whose audit append or notification rejected after its
\* transaction committed leaves the record accepted with its volunteer id,
\* and every other Accept on the id is answered 409 Conflict.
C10_NoRollback ==
    \A r \in Slots :
        (reqs[r].op = "accept" /\ reqs[r].committed /\ reqs[r].result = 500) =>
            /\ emergencies[reqs[r].emergencyId].status = "accepted"
            /\ emergencies[reqs[r].emergencyId].volunteerId = reqs[r].volunteer_id
            /\ \A q \in AcceptsOn(reqs[r].emergencyId) \ {r} : reqs[q].result = 409

C10_Witness ==
    \E r, q \in Slots :
        /\ reqs[r].op = "accept" /\ reqs[r].committed /\ reqs[r].result = 500
        /\ reqs[q].op = "accept" /\ reqs[q].emergencyId = reqs[r].emergencyId
        /\ reqs[q].result = 409 /\ q > r
        /\ emergencies[reqs[r].emergencyId].volunteerId = reqs[r].volunteer_id

\* A device document that may be notified of a Report that read the clock
\* at t: a volunteer, available, with a push token, last seen at most ten
\* minutes before t.
Eligible(d, t) ==
    /\ d.exists /\ d.role = "volunteer" /\ d.isAvailable = TRUE
    /\ d.fcmToken # Null
    /\ d.lastSeenAt # Undefined /\ d.lastSeenAt >= t - maxAgeSec

VolunteerKeys == {k \in DOMAIN devices : k[1] = "volunteer"}

\* C11: every push token a Report selects belongs to a device document
\* that, in the directory as the Report read it, has role volunteer, is
\* available, has that token and was last seen at most 10 minutes before
\* the time of the Report (a document without a numeric lastSeenAt is
\* stale); and the message the Report hands over goes to exactly the
\* selected tokens.
C11_NotifiedWereEligible ==
    [][\A r \in Slots :
          /\ (reqs[r].op = "report" /\ reqs[r].pc = "devices_query"
                 /\ reqs'[r].pc = "multicast") =>
                 \A p \in 1..Len(reqs'[r].tokens) :
                     \E k \in VolunteerKeys :
                         /\ Eligible(devices[k], reqs[r].now)
                         /\ devices[k].fcmToken = reqs'[r].tokens[p]
          /\ (reqs[r].op = "report" /\ reqs[r].pc = "multicast"
                 /\ reqs'[r].pc = "audit_pushed") =>
                 \A m \in sent' \ sent : m.tokens = reqs[r].tokens]_vars

C11_Witness ==
    \E m \in NewMessages :
        /\ Len(m.tokens) > 0
        /\ \E k \in VolunteerKeys :
              /\ devices[k].exists /\ devices[k].isAvailable
              /\ devices[k].fcmToken # Null
              /\ devices[k].lastSeenAt \in {Undefined, StartTime - maxAgeSec - 1}
              /\ \A p \in 1..Len(m.tokens) : m.tokens[p] # devices[k].fcmToken
        /\ \E k \in VolunteerKeys :
              /\ devices[k].lastSeenAt = StartTime - maxAgeSec
              /\ \E p \in 1..Len(m.tokens) : m.tokens[p] = devices[k].fcmToken

\* The rank of volunteer i against volunteer j for an emergency at
\* (latitude, longitude): nearer first, a known distance before an unknown
\* one, and on a tie the one the query returned first.
Located(i) ==
    /\ devices[<<"volunteer", i>>].latitude # Undefined
    /\ devices[<<"volunteer", i>>].longitude # Undefined

DistanceTo(i, latitude, longitude) ==
    haversineKm(latitude, longitude, devices[<<"volunteer", i>>].latitude,
                devices[<<"volunteer", i>>].longitude)

RankedBefore(i, j, latitude, longitude) ==
    IF Located(i) /\ Located(j)
    THEN \/ DistanceTo(i, latitude, longitude) < DistanceTo(j, latitude, longitude)
         \/ /\ DistanceTo(i, latitude, longitude) = DistanceTo(j, latitude, longitude)
            /\ i < j
    ELSE IF Located(i) THEN TRUE
    ELSE IF Located(j) THEN FALSE
    ELSE i < j

\* C12: the volunteers a Report selects are at most 10, and they are the
\* first 10 (or all) of the eligible volunteers of the directory in the
\* order: ascending distance to the emergency, unknown distance last, and
\* the order of the query among equal distances and among unknown ones.
C12_TopTenByDistance ==
    [][\A r \in Slots :
          (reqs[r].op = "report" /\ reqs[r].pc = "devices_query"
             /\ reqs'[r].pc \in {"multicast", "done"} /\ reqs'[r].result # 500) =>
              LET pool == {k[2] : k \in {q \in VolunteerKeys :
                                            Eligible(devices[q], reqs[r].now)}}
                  top == reqs'[r].notified
                  chosen == {top[p] : p \in 1..Len(top)}
                  lat == reqs[r].latitude
                  lon == reqs[r].longitude
              IN  /\ Len(top) <= 10
                  /\ Len(top) = Min(Cardinality(pool), 10)
                  /\ chosen \subseteq pool
                  /\ \A p, q \in 1..Len(top) :
                        p < q => RankedBefore(top[p], top[q], lat, lon)
                  /\ \A c \in pool \ chosen :
                        \A p \in 1..Len(top) : RankedBefore(top[p], c, lat, lon)]_vars

C12_Witness ==
    \E r \in Slots :
        /\ reqs[r].op = "report" /\ reqs[r].pc = "multicast"
        /\ Len(reqs[r].notified) = 10
        /\ Cardinality({k \in VolunteerKeys : Eligible(devices[k], reqs[r].now)}) > 10
        /\ \E p \in 1..10 : ~Located(reqs[r].notified[p])
        /\ \E p, q \in 1..10 :
              /\ p < q /\ reqs[r].notified[p] > reqs[r].notified[q]
              /\ Located(reqs[r].notified[q])
        /\ \E p \in 1..9 :
              /\ Located(reqs[r].notified[p]) /\ Located(reqs[r].notified[p + 1])
              /\ SelectorLon(reqs[r].notified[p]) = SelectorLon(reqs[r].notified[p + 1])

\* C13: a Report without a reporter id, or whose latitude or longitude is
\* missing or not a number, is answered 400 and writes nothing: the
\* emergencies, the audit log, the messages sent and the devices stay as
\* they were, and the answered request takes no further step.
C13_InvalidReportWritesNothing ==
    [][\A r \in Slots :
          /\ \A elderly_id \in ElderlyIds \cup {Undefined},
                latitude \in Lats \cup {Undefined},
                longitude \in Lons \cup {Undefined},
                timestamp \in {Undefined, StartTime}, status \in {"", "accepted"} :
                 ( /\ ReportCreate(r, elderly_id, latitude, longitude, timestamp, status)
                   /\ \/ elderly_id \in {Undefined, Null}
                      \/ latitude = Undefined \/ longitude = Undefined ) =>
                     /\ reqs'[r].result = 400 /\ reqs'[r].pc = "done"
                     /\ emergencies' = emergencies /\ audit_logs' = audit_logs
                     /\ sent' = sent /\ devices' = devices
          /\ (reqs[r].op = "report" /\ reqs[r].result = 400) => reqs'[r] = reqs[r]]_vars

C13_Witness ==
    \E r \in Slots :
        /\ reqs[r].op = "report" /\ reqs[r].result = 400
        /\ emergencies[StartTime].exists
        /\ devices[<<"volunteer", 1>>].exists
        /\ sent = {}
        /\ \A q \in Slots \ {r} : reqs[q].op = "idle"

IdsOf(out) == {out[k].id : k \in 1..Len(out)}

\* C14: the first query of ListActive returns exactly the records that are
\* active when it answers, as active; with a volunteer id v the second
\* query appends exactly the records that are accepted by v when it
\* answers, as accepted by v; without a volunteer id nothing is appended.
\* So no answer ever shows a record as accepted by another volunteer, or
\* as accepted at all when no volunteer id was given.
C14_ListActiveContents ==
    [][\A r \in Slots :
          /\ (reqs[r].op = "idle" /\ reqs'[r].op = "list") =>
                LET out == reqs'[r].out
                IN  /\ IdsOf(out) = {i \in EmergencyIds :
                                        /\ emergencies[i].exists
                                        /\ emergencies[i].status = "active"}
                    /\ \A k \in 1..Len(out) :
                          /\ out[k].status = "active"
                          /\ out[k].volunteer_id = emergencies[out[k].id].volunteerId
                    /\ reqs'[r].volunteer_id = Null =>
                          reqs'[r].pc = "done" /\ reqs'[r].result = 200
          /\ (reqs[r].op = "list" /\ reqs[r].pc = "accepted_query"
                 /\ reqs'[r].result = 200) =>
                LET v == reqs[r].volunteer_id
                    n == Len(reqs[r].out)
                    out == reqs'[r].out
                    tail == SubSeq(out, n + 1, Len(out))
                IN  /\ SubSeq(out, 1, n) = reqs[r].out
                    /\ IdsOf(tail) = {i \in EmergencyIds :
                                         /\ emergencies[i].exists
                                         /\ emergencies[i].status = "accepted"
                                         /\ emergencies[i].volunteerId = v}
                    /\ \A k \in 1..Len(tail) :
                          tail[k].status = "accepted" /\ tail[k].volunteer_id = v
          /\ (reqs'[r].op = "list" /\ reqs'[r].result = 200) =>
                \A k \in 1..Len(reqs'[r].out) :
                    reqs'[r].out[k].status = "accepted" =>
                        /\ reqs'[r].volunteer_id # Null
                        /\ reqs'[r].out[k].volunteer_id = reqs'[r].volunteer_id]_vars

\* Emergency StartTime was accepted by volunteer 1 (and is closed to every
\* other Accept); ListActive(1) has answered with it, ListActive for
\* another volunteer, or for none, has answered without it.
C14_Witness ==
    \E r, q \in Slots :
        /\ hist[StartTime].wins = <<1>>
        /\ emergencies[StartTime].status = "accepted"
        /\ emergencies[StartTime].volunteerId = 1
        /\ reqs[r].op = "list" /\ reqs[r].result = 200 /\ reqs[r].volunteer_id = 1
        /\ StartTime \in IdsOf(reqs[r].out)
        /\ reqs[q].op = "list" /\ reqs[q].result = 200 /\ reqs[q].volunteer_id # 1
        /\ StartTime \notin IdsOf(reqs[q].out)

\* C19: the array one ListActive call answers holds every emergency id at
\* most once, and each entry shows a status the record held when a query
\* of the call read it.
C19_ListedOnce ==
    \A r \in Slots :
        (reqs[r].op = "list" /\ reqs[r].result = 200) =>
            \A k, l \in 1..Len(reqs[r].out) :
                reqs[r].out[k].id = reqs[r].out[l].id => k = l

\* C15: a RetentionSweep call is answered 403 Forbidden when ADMIN_TOKEN is
\* not configured, whatever token it presents (none included), and when
\* the token it presents is not the configured one; such a call deletes
\* nothing and takes no further step.
C15_SweepFailsClosed ==
    [][\A r \in Slots :
          /\ \A token \in {"", "secret", "wrong"}, days \in {Undefined, 0} :
                 ( /\ CleanupQuery(r, token, days)
                   /\ (ADMIN_TOKEN = "" \/ token # ADMIN_TOKEN) ) =>
                     /\ reqs'[r].result = 403 /\ reqs'[r].pc = "done"
                     /\ emergencies' = emergencies
          /\ (reqs[r].op = "cleanup" /\ reqs[r].result = 403) => reqs'[r] = reqs[r]]_vars

C15_Witness ==
    \E r \in Slots :
        /\ ADMIN_TOKEN = ""
        /\ reqs[r].op = "cleanup" /\ reqs[r].result = 403
        /\ \A q \in Slots \ {r} : reqs[q].op = "idle"
        /\ \E i \in EmergencyIds :
              emergencies[i].exists /\ emergencies[i].createdAt < now

\* C16: the commit of an authorised RetentionSweep deletes only records
\* whose createdAt is before the cutoff of the call, at most 200 of them,
\* as many as the call reports (its answer carries the size of its query
\* result), and leaves every other record as it was.
C16_SweepDeletesOnlyExpired ==
    [][\A r \in Slots :
          (reqs[r].op = "cleanup" /\ reqs[r].pc = "commit"
             /\ reqs'[r].result = 200) =>
              LET gone == {i \in EmergencyIds :
                              emergencies[i].exists /\ ~emergencies'[i].exists}
              IN  /\ \A i \in gone : emergencies[i].createdAt < reqs[r].cutoff
                  /\ Cardinality(gone) <= 200
                  /\ Cardinality(reqs[r].snap) = Cardinality(gone)
                  /\ \A i \in EmergencyIds \ gone :
                        emergencies'[i] = emergencies[i]]_vars

\* C17: a SetStatus on an id without a record is answered 404 and creates
\* no record, also when the record disappears between the existence check
\* and the write; on a stored record the write sets the status, sets the
\* volunteerId only when the request carries one (null clears it), leaves
\* every other record alone, and is followed by one audit entry
\* status_<status>.
C17_SetStatusOutcome ==
    [][\A r \in Slots :
          /\ (reqs[r].op = "idle" /\ reqs'[r].op = "setstatus"
                 /\ ~emergencies[reqs'[r].emergencyId].exists) =>
                 reqs'[r].result = 404 /\ emergencies' = emergencies
          /\ (reqs[r].op = "setstatus" /\ reqs[r].pc = "update"
                 /\ reqs'[r].pc = "audit_status") =>
                 LET i == reqs[r].emergencyId
                 IN  /\ emergencies'[i].status = reqs[r].status
                     /\ emergencies'[i].volunteerId =
                            IF reqs[r].volunteer_id = Undefined
                            THEN emergencies[i].volunteerId
                            ELSE reqs[r].volunteer_id
                     /\ \A j \in EmergencyIds \ {i} :
                           emergencies'[j] = emergencies[j]
          /\ (reqs[r].op = "setstatus" /\ reqs[r].pc = "update"
                 /\ ~emergencies[reqs[r].emergencyId].exists
                 /\ reqs'[r] # reqs[r]) =>
                 reqs'[r].result = 404 /\ emergencies' = emergencies
          /\ (reqs[r].op = "setstatus" /\ reqs[r].pc = "audit_status"
                 /\ reqs'[r].result = 200) =>
                 \E e \in audit_logs' \ audit_logs :
                     /\ audit_logs' = audit_logs \cup {e}
                     /\ e.action = "status_" \o reqs[r].status
                     /\ e.emergencyId = reqs[r].emergencyId]_vars

\* C18: an Accept answered 404 or 409 changes nothing: the emergencies,
\* the audit log and the messages sent are as before the call, its
\* transaction has not committed, and the call takes no further step.
C18_FailedAcceptChangesNothing ==
    [][\A r \in Slots :
          /\ (reqs[r].op = "idle" /\ reqs'[r].op = "accept"
                 /\ reqs'[r].result \in {404, 409}) =>
                 /\ emergencies' = emergencies /\ audit_logs' = audit_logs
                 /\ sent' = sent /\ hist' = hist
                 /\ ~reqs'[r].committed /\ reqs'[r].pc = "done"
          /\ (reqs[r].op = "accept" /\ reqs[r].result \in {404, 409}) =>
                 reqs'[r] = reqs[r]]_vars

C18_Witness ==
    \E r \in Slots :
        /\ reqs[r].op = "accept" /\ reqs[r].result = 409 /\ reqs[r].volunteer_id = 2
        /\ \A q \in Slots \ {r} : reqs[q].op = "idle"
        /\ now > StartTime
        /\ emergencies[reqs[r].emergencyId].status = "accepted"
        /\ emergencies[reqs[r].emergencyId].volunteerId = 1
        /\ emergencies[reqs[r].emergencyId].acceptedAt = StartTime
        /\ emergencies[reqs[r].emergencyId].updatedAt = StartTime
        /\ sent = {}
        /\ ~\E e \in audit_logs : e.action = "accepted" /\ e.actorUserId = 2

\* C20: an availability update for volunteer v writes the device document
\* volunteer_v and no other: it sets role volunteer, isAvailable and
\* lastSeenAt, and keeps the stored push token, latitude and longitude
\* that the request does not supply; a request without a volunteer id
\* writes nothing; and no step of any operation removes a device document.
C20_AvailabilityFrame ==
    [][/\ \A r \in Slots, volunteer_id \in VolunteerIds \cup {Undefined},
             is_available \in BOOLEAN, latitude \in {Undefined, 0},
             longitude \in {Undefined, 1},
             fcm_token \in {Null} \cup {TokenOf("volunteer", v) : v \in VolunteerIds} :
              Availability(r, volunteer_id, is_available, latitude, longitude,
                           fcm_token) =>
                  IF volunteer_id = Undefined THEN devices' = devices
                  ELSE LET k == <<"volunteer", volunteer_id>>
                       IN  /\ devices'[k].exists
                           /\ devices'[k].role = "volunteer"
                           /\ devices'[k].isAvailable = is_available
                           /\ devices'[k].lastSeenAt = now
                           /\ fcm_token = Null =>
                                 devices'[k].fcmToken = devices[k].fcmToken
                           /\ latitude = Undefined =>
                                 devices'[k].latitude = devices[k].latitude
                           /\ longitude = Undefined =>
                                 devices'[k].longitude = devices[k].longitude
                           /\ \A j \in DOMAIN devices \ {k} :
                                 devices'[j] = devices[j]
       /\ \A k \in DOMAIN devices : devices[k].exists => devices'[k].exists]_vars

\* One request has run, after the clock advanced: an availability update
\* without token or location on a registered volunteer, whose document
\* still has both.
C20_Witness ==
    /\ reqs[1].op = "availability" /\ reqs[1].result = 200
    /\ \A q \in Slots \ {1} : reqs[q].op = "idle"
    /\ \E v \in VolunteerIds :
          /\ devices[<<"volunteer", v>>].lastSeenAt = StartTime + 1
          /\ devices[<<"volunteer", v>>].isAvailable = FALSE
          /\ devices[<<"volunteer", v>>].fcmToken = TokenOf("volunteer", v)
          /\ devices[<<"volunteer", v>>].latitude = 0
          /\ devices[<<"volunteer", v>>].longitude = v - 1

====
